---- MODULE Spec2Model ----
(***************************************************************************)
(* A model of utilities of neodroidvision:                                 *)
(*   - the local-neighbourhood differencing operator subtraction2_zeropad  *)
(*     (forward kernel, both backward kernels, the autograd Function);     *)
(*   - the checkpoint persister CheckPointer (save / load / pointer file); *)
(*   - the distributed helpers reduce_dict, all_gather, the barrier, the   *)
(*     rank and world-size queries, and the gating of print;               *)
(*   - the VGG backbone of the SSD detector;                               *)
(*   - sequences of collective utility calls in a process group.           *)
(* Each component has its own specification (SpecSub, SpecCkpt, SpecDist,  *)
(* SpecGather, SpecSolo, SpecPrint, SpecVgg, SpecColl); the variables of   *)
(* the other components stay at their initial value.                       *)
(***************************************************************************)
EXTENDS Integers, Sequences, FiniteSets, TLC

VARIABLES
    \* ---- subtraction2_zeropad ----
    input1, input2,          \* tensors: [shape, is_cuda, data]
    kernel_size, stride, padding, dilation,   \* arguments as passed (scalar <<x>> or pair <<h, w>>)
    seed,                    \* selects the data of the inputs and of the incoming gradient
    ctx,                     \* what forward stores on ctx
    output_size,             \* forward's locals <<output_height, output_width>>, or None
    output,                  \* the tensor returned by forward, or None
    grads,                   \* what backward computed
    sub_pc, sub_error,       \* position of the caller / the exception raised
    \* ---- CheckPointer ----
    model, optimizer, scheduler,   \* the live objects of the CheckPointer
    save_dir, save_to_disk,        \* its configuration
    blobs,                         \* the checkpoint blobs of the save directory, by name
    pointer,                       \* the file last_checkpoint.txt of the save directory
    ck_pc,                         \* position inside load ("idle" between calls)
    f,                             \* load's local f
    call,                          \* the call in progress or last finished, and what it did
    ck_result, ck_error,           \* what the last call returned / raised
    last_save,                     \* the most recent save that wrote a blob
    n_calls                        \* number of calls made so far

sub_vars == <<input1, input2, kernel_size, stride, padding, dilation, seed,
              ctx, output_size, output, grads, sub_pc, sub_error>>

ck_vars == <<model, optimizer, scheduler, save_dir, save_to_disk, blobs, pointer,
             ck_pc, f, call, ck_result, ck_error, last_save, n_calls>>

\* reduce_dict, one call per process of the group
VARIABLES
    world_size,                    \* distributed.get_world_size(), 1 without a group
    input_dict,                    \* per rank: the entries [k, v], in insertion order
    average,
    names,                         \* per rank: the local names
    values,                        \* per rank: the local values, stacked
    reduced_dict,                  \* per rank: what the call returned
    rd_pc,                         \* per rank: where the call is
    rd_error                       \* per rank: the exception the call raised

dist_vars == <<world_size, input_dict, average, names, values, reduced_dict, rd_pc, rd_error>>

\* all_gather, one call per process of the group
VARIABLES
    payload,                       \* per rank: the argument data, a sequence of bytes
    tensor,                        \* per rank: the local byte tensor
    size_list,                     \* per rank: the sizes received from the ranks
    tensor_list,                   \* per rank: the byte tensors received from the ranks
    data_list,                     \* per rank: what the call returned
    ag_pc,                         \* per rank: where the call is
    ag_error                       \* per rank: the exception the call raised

ag_vars == <<payload, tensor, size_list, tensor_list, data_list, ag_pc, ag_error>>

\* the process group, the barrier and the queries of one process
VARIABLES
    initialized,                   \* distributed.is_available() and is_initialized()
    bar_pc,                        \* per rank: where synchronise_torch_barrier is
    queried                        \* per rank: what the queries of the group returned

ut_vars == <<initialized, bar_pc, queried>>

\* builtins.print of one process
VARIABLES
    is_main,                       \* whether the process is the main process
    print_chain,                   \* the is_master of the wrappers put on builtins.print, oldest first
    last_print,                    \* the last call of print and what it did
    n_prints                       \* number of calls of print so far

pr_vars == <<is_main, print_chain, last_print, n_prints>>

\* VGG, one call of forward
VARIABLES
    vgg_size,                      \* the size the backbone was built for
    vgg,                           \* self.vgg, the list of layers
    extras,                        \* self.extras, the list of layers
    feat_x,                        \* forward's x
    features,                      \* forward's features
    vgg_pc,                        \* the loop forward is in
    vgg_i                          \* the index of that loop

vg_vars == <<vgg_size, vgg, extras, feat_x, features, vgg_pc, vgg_i>>

\* a group of processes, each issuing a sequence of collective utility calls
VARIABLES
    program,                       \* per rank: the utilities it calls, in order
    empty_dict,                    \* per rank: whether the dictionaries it reduces are empty
    co_pos,                        \* per rank: the call it is in (1-based)
    co_step,                       \* per rank: the collectives of that call that completed
    co_state,                      \* per rank: "running", "waiting" in a collective, "raised"
    co_kind                        \* per rank: the collective it waits in

co_vars == <<program, empty_dict, co_pos, co_step, co_state, co_kind>>

\* The variables of the utilities that follow the first three.
ext_vars == <<ag_vars, ut_vars, pr_vars, vg_vars, co_vars>>

\* What the actions of each of them leave alone.
ag_rest == <<sub_vars, ck_vars, dist_vars, ut_vars, pr_vars, vg_vars, co_vars>>
ut_rest == <<sub_vars, ck_vars, dist_vars, ag_vars, pr_vars, vg_vars, co_vars>>
pr_rest == <<sub_vars, ck_vars, dist_vars, ag_vars, ut_vars, vg_vars, co_vars>>
vg_rest == <<sub_vars, ck_vars, dist_vars, ag_vars, ut_vars, pr_vars, co_vars>>
co_rest == <<sub_vars, ck_vars, dist_vars, ag_vars, ut_vars, pr_vars, vg_vars>>

vars == <<sub_vars, ck_vars, dist_vars, ext_vars>>

None == "None"

(***************************************************************************)
(* Bounds of the model.                                                    *)
(***************************************************************************)
MaxIn == 3          \* input height / width: 1..MaxIn
MaxKernel == 3      \* kernel extent: 1..MaxKernel
MaxStride == 2      \* stride: 1..MaxStride
MaxPad == 1         \* padding: 0..MaxPad
MaxDilation == 2    \* dilation: 1..MaxDilation
MaxSeed == 0        \* data patterns: 0..MaxSeed
MaxStep == 1        \* training steps of the live objects: 0 (fresh) .. MaxStep
MaxCalls == 2       \* save / load calls in one behaviour
MaxWorld == 2       \* processes of the group: 1..MaxWorld
MaxKeys == 2        \* keys of the dictionaries: subsets of 1..MaxKeys
MaxPayload == 2     \* bytes of a payload of all_gather: 0..MaxPayload
MaxSetup == 2       \* calls of setup_for_distributed in one process
MaxPrints == 2      \* calls of print in one process
MaxImages == 2      \* input images of VGG.forward: 1..MaxImages
MaxProgram == 2     \* collective utility calls of one process: 0..MaxProgram

(***************************************************************************)
(* Integer arithmetic of the two languages.                                *)
(***************************************************************************)
\* C integer division: truncation toward zero (b # 0).
CDiv(a, b) ==
    LET aa == IF a < 0 THEN -a ELSE a
        bb == IF b < 0 THEN -b ELSE b
        q  == aa \div bb
    IN  IF (a < 0) = (b < 0) THEN q ELSE -q

\* C remainder: the sign follows the dividend.
CMod(a, b) == a - b * CDiv(a, b)

\* Python int(a / b): true division, then truncation toward zero.
PyIntOfQuotient(a, b) == CDiv(a, b)

(***************************************************************************)
(* Tensors: a shape, a device flag and the flat (row-major) buffer.        *)
(***************************************************************************)
RECURSIVE Product(_)
Product(s) == IF s = <<>> THEN 1 ELSE Head(s) * Product(Tail(s))

Numel(shape) == Product(shape)

Val1(sd, i) == 100 * (sd + 1) + 7 * i + ((i * i) % 3)
Val2(sd, i) == 1 + ((5 * i + 3 * sd) % 13)
GradVal(sd, i) == 1 + ((7 * i + 3 * sd + (i * i)) % 11)

\* which == 1: the data of x1, which == 2: the data of x2
Tensor(shape, cuda, which, sd) ==
    [shape |-> shape, is_cuda |-> cuda,
     data |-> [i \in 0..(Numel(shape) - 1) |-> IF which = 1 THEN Val1(sd, i) ELSE Val2(sd, i)]]

\* What a read outside an allocated buffer, or of an uninitialised element, may yield.
JunkVals == {-9999, 7777}

ReadBuf(data, off, junk) == IF off \in DOMAIN data THEN data[off] ELSE junk

\* torch.nn.modules.utils._pair: a scalar becomes (x, x), a pair is kept.
Pair(x) == IF Len(x) = 1 THEN <<x[1], x[1]>> ELSE x

(***************************************************************************)
(* Subtraction2Zeropad.forward / backward: the output size.                *)
(***************************************************************************)
OutputSizeNoPlusOne(inp, pad, dil, k, s) ==
    PyIntOfQuotient(inp + 2 * pad - (dil * (k - 1) + 1), s)

\* int((input + 2*padding - (dilation*(kernel_size-1)+1)) / stride + 1)
\* (x / s + 1 = (x + s) / s exactly, so the truncation is applied to (x + s) / s).
OutputSize(inp, pad, dil, k, s) ==
    PyIntOfQuotient((inp + 2 * pad - (dil * (k - 1) + 1)) + s, s)

\* The keyword arguments forward and backward hand to load_kernel.
KernelOpt(shape, ks, st, pd, dl) ==
    [num |-> shape[1], input_channels |-> shape[2],
     bottom_height |-> shape[3], bottom_width |-> shape[4],
     top_height |-> OutputSize(shape[3], pd[1], dl[1], ks[1], st[1]),
     top_width |-> OutputSize(shape[4], pd[2], dl[2], ks[2], st[2]),
     kernel_h |-> ks[1], kernel_w |-> ks[2],
     stride_h |-> st[1], stride_w |-> st[2],
     dilation_h |-> dl[1], dilation_w |-> dl[2],
     pad_h |-> pd[1], pad_w |-> pd[2]]

(***************************************************************************)
(* The forward kernel: what one logical thread (one value of index) does.  *)
(* The result is the sequence of its stores, in program order.             *)
(***************************************************************************)
OffsetTopBadStride(o, n, c, kh, kw, h, w) ==
    ((n * o.input_channels + c) * o.kernel_h * o.kernel_w + (kh * o.kernel_h + kw))
        * o.top_height * o.top_width + h * o.top_width + w

OffsetTop(o, n, c, kh, kw, h, w) ==
    ((n * o.input_channels + c) * o.kernel_h * o.kernel_w + (kh * o.kernel_w + kw))
        * o.top_height * o.top_width + h * o.top_width + w

OffsetBottom(o, n, c, h, w) ==
    ((n * o.input_channels + c) * o.bottom_height + h) * o.bottom_width + w

InBottom(o, h, w) ==
    (h >= 0) /\ (h < o.bottom_height) /\ (w >= 0) /\ (w < o.bottom_width)

ForwardElementNoBoundsTest(o, bottom1_data, bottom2_data, offset_center, n, c, h_in, w_in, junk) ==
    ReadBuf(bottom1_data, offset_center, junk)
        - ReadBuf(bottom2_data, OffsetBottom(o, n, c, h_in, w_in), junk)

ForwardElement(o, bottom1_data, bottom2_data, offset_center, n, c, h_in, w_in, junk) ==
    IF InBottom(o, h_in, w_in)
    THEN ReadBuf(bottom1_data, offset_center, junk)
             - ReadBuf(bottom2_data, OffsetBottom(o, n, c, h_in, w_in), junk)
    ELSE ReadBuf(bottom1_data, offset_center, junk)

ForwardThread(o, bottom1_data, bottom2_data, index, junk) ==
    LET n == CDiv(CDiv(CDiv(index, o.input_channels), o.top_height), o.top_width)
        c == CMod(CDiv(CDiv(index, o.top_height), o.top_width), o.input_channels)
        h == CMod(CDiv(index, o.top_width), o.top_height)
        w == CMod(index, o.top_width)
        h_in_center == -o.pad_h + h * o.stride_h + CDiv(o.kernel_h - 1, 2) * o.dilation_h
        w_in_center == -o.pad_w + w * o.stride_w + CDiv(o.kernel_w - 1, 2) * o.dilation_w
        offset_center == OffsetBottom(o, n, c, h_in_center, w_in_center)
    IN  [j \in 1..(o.kernel_h * o.kernel_w) |->
            LET kh == (j - 1) \div o.kernel_w
                kw == (j - 1) % o.kernel_w
                h_in == -o.pad_h + h * o.stride_h + kh * o.dilation_h
                w_in == -o.pad_w + w * o.stride_w + kw * o.dilation_w
            IN  [off |-> OffsetTop(o, n, c, kh, kw, h, w),
                 val |-> ForwardElement(o, bottom1_data, bottom2_data,
                                        offset_center, n, c, h_in, w_in, junk)]]

\* The stores of one thread as a map offset -> value; of two stores to one
\* offset the later one stays.
ThreadStores(stores) ==
    [off \in {stores[j].off : j \in DOMAIN stores} |->
        LET last == CHOOSE j \in DOMAIN stores :
                        /\ stores[j].off = off
                        /\ \A j2 \in DOMAIN stores : j2 > j => stores[j2].off # off
        IN  stores[last].val]

\* CUDA_KERNEL_LOOP(index, nthreads): every index of 0..nthreads-1 is run by one
\* logical thread.  The stores of the threads lo..hi-1, taken in index order.
RECURSIVE ForwardStores(_, _, _, _, _, _)
ForwardStores(o, bottom1_data, bottom2_data, lo, hi, junk) ==
    IF hi <= lo THEN [off \in {} |-> 0]
    ELSE IF hi = lo + 1
    THEN ThreadStores(ForwardThread(o, bottom1_data, bottom2_data, lo, junk))
    ELSE LET mid == (lo + hi) \div 2
         IN  ForwardStores(o, bottom1_data, bottom2_data, mid, hi, junk)
                 @@ ForwardStores(o, bottom1_data, bottom2_data, lo, mid, junk)

\* The launch: top_data after all threads ran (a store outside the buffer is lost).
ForwardLaunch(o, bottom1_data, bottom2_data, top_data, nthreads, junk) ==
    LET stored == ForwardStores(o, bottom1_data, bottom2_data, 0, nthreads, junk)
    IN  [off \in DOMAIN top_data |->
            IF off \in DOMAIN stored THEN stored[off] ELSE top_data[off]]

(***************************************************************************)
(* The backward kernels: one logical thread per element of the input.      *)
(***************************************************************************)
RECURSIVE SumSeq(_)
SumSeq(s) == IF s = <<>> THEN 0 ELSE Head(s) + SumSeq(Tail(s))

Input1BackwardThread(o, top_diff, index, junk) ==
    LET n == CDiv(CDiv(CDiv(index, o.input_channels), o.bottom_height), o.bottom_width)
        c == CMod(CDiv(CDiv(index, o.bottom_height), o.bottom_width), o.input_channels)
        h == CMod(CDiv(index, o.bottom_width), o.bottom_height)
        w == CMod(index, o.bottom_width)
    IN  IF (CMod(h, o.stride_h) = 0) /\ (CMod(w, o.stride_w) = 0)
        THEN LET h_out == CDiv(h, o.stride_h)
                 w_out == CDiv(w, o.stride_w)
             IN  SumSeq([j \in 1..(o.kernel_h * o.kernel_w) |->
                     LET kh == (j - 1) \div o.kernel_w
                         kw == (j - 1) % o.kernel_w
                     IN  ReadBuf(top_diff, OffsetTop(o, n, c, kh, kw, h_out, w_out), junk)])
        ELSE 0

Input2BackwardTermNoRangeTest(o, top_diff, n, c, h, w, kh, kw, junk) ==
    LET h_out_s == h + o.pad_h - kh * o.dilation_h
        w_out_s == w + o.pad_w - kw * o.dilation_w
    IN  IF (CMod(h_out_s, o.stride_h) = 0) /\ (CMod(w_out_s, o.stride_w) = 0)
        THEN -ReadBuf(top_diff, OffsetTop(o, n, c, kh, kw,
                          CDiv(h_out_s, o.stride_h), CDiv(w_out_s, o.stride_w)), junk)
        ELSE 0

\* One (kh, kw) iteration of the loop of the input2 kernel: what it adds to value.
Input2BackwardTerm(o, top_diff, n, c, h, w, kh, kw, junk) ==
    LET h_out_s == h + o.pad_h - kh * o.dilation_h
        w_out_s == w + o.pad_w - kw * o.dilation_w
    IN  IF (CMod(h_out_s, o.stride_h) = 0) /\ (CMod(w_out_s, o.stride_w) = 0)
        THEN LET h_out == CDiv(h_out_s, o.stride_h)
                 w_out == CDiv(w_out_s, o.stride_w)
             IN  IF (h_out >= 0) /\ (h_out < o.top_height)
                       /\ (w_out >= 0) /\ (w_out < o.top_width)
                 THEN -ReadBuf(top_diff, OffsetTop(o, n, c, kh, kw, h_out, w_out), junk)
                 ELSE 0
        ELSE 0

Input2BackwardThread(o, top_diff, index, junk) ==
    LET n == CDiv(CDiv(CDiv(index, o.input_channels), o.bottom_height), o.bottom_width)
        c == CMod(CDiv(CDiv(index, o.bottom_height), o.bottom_width), o.input_channels)
        h == CMod(CDiv(index, o.bottom_width), o.bottom_height)
        w == CMod(index, o.bottom_width)
    IN  SumSeq([j \in 1..(o.kernel_h * o.kernel_w) |->
            Input2BackwardTerm(o, top_diff, n, c, h, w,
                               (j - 1) \div o.kernel_w, (j - 1) % o.kernel_w, junk)])

\* Each thread stores its value at bottom_diff[index].
Input1BackwardLaunch(o, top_diff, nthreads, junk) ==
    [index \in 0..(nthreads - 1) |-> Input1BackwardThread(o, top_diff, index, junk)]

Input2BackwardLaunch(o, top_diff, nthreads, junk) ==
    [index \in 0..(nthreads - 1) |-> Input2BackwardThread(o, top_diff, index, junk)]

(***************************************************************************)
(* The inputs of the operator.                                             *)
(***************************************************************************)
\* One spatial dimension: input extent, kernel, stride, padding, dilation.
DimParams ==
    [inp : 1..MaxIn, k : 1..MaxKernel, s : 1..MaxStride, p : 0..MaxPad, d : 1..MaxDilation]

\* The other dimension when only one is varied.
Companion == [inp |-> 3, k |-> 3, s |-> 2, p |-> 1, d |-> 1]

BatchChannel == {<<1, 1>>, <<2, 2>>}

WellFormedInit ==
    \E hd \in DimParams, wd \in DimParams, bc \in BatchChannel, sd \in 0..MaxSeed,
       scalar \in BOOLEAN :
        /\ \/ wd = Companion /\ ~scalar
           \/ hd = Companion /\ ~scalar
           \/ scalar /\ hd.k = wd.k /\ hd.s = wd.s /\ hd.p = wd.p /\ hd.d = wd.d
                     /\ hd.inp = wd.inp
        /\ input1 = Tensor(<<bc[1], bc[2], hd.inp, wd.inp>>, TRUE, 1, sd)
        /\ input2 = Tensor(<<bc[1], bc[2], hd.inp, wd.inp>>, TRUE, 2, sd)
        /\ kernel_size = IF scalar THEN <<hd.k>> ELSE <<hd.k, wd.k>>
        /\ stride = IF scalar THEN <<hd.s>> ELSE <<hd.s, wd.s>>
        /\ padding = IF scalar THEN <<hd.p>> ELSE <<hd.p, wd.p>>
        /\ dilation = IF scalar THEN <<hd.d>> ELSE <<hd.d, wd.d>>
        /\ seed = sd

\* Calls that break a precondition: a tensor that is not 4-dimensional, not on
\* the device, or an input2 of another shape than input1.
MalformedShapes1 == {<<1, 3, 3>>, <<1, 1, 3, 3>>}
MalformedShapes2 == {<<1, 1, 3, 3>>, <<1, 1, 2, 2>>, <<1, 1, 4, 4>>, <<1, 3, 3>>, <<1, 2, 3, 3>>}

MalformedInit ==
    \E sh1 \in MalformedShapes1, sh2 \in MalformedShapes2, cuda1 \in BOOLEAN, cuda2 \in BOOLEAN,
       ks \in 1..MaxKernel :
        /\ (sh1 # sh2) \/ ~cuda1 \/ ~cuda2 \/ Len(sh1) # 4
        /\ input1 = Tensor(sh1, cuda1, 1, 0)
        /\ input2 = Tensor(sh2, cuda2, 2, 0)
        /\ kernel_size = <<ks>>
        /\ stride = <<1>>
        /\ padding = <<(ks - 1) \div 2>>
        /\ dilation = <<1>>
        /\ seed = 0

SubInit ==
    /\ WellFormedInit \/ MalformedInit
    /\ ctx = None
    /\ output_size = None
    /\ output = None
    /\ grads = None
    /\ sub_pc = "start"
    /\ sub_error = None

(***************************************************************************)
(* subtraction2_zeropad(input1, input2, kernel_size, stride, padding,      *)
(* dilation): the wrapper and Subtraction2Zeropad.forward.                 *)
(***************************************************************************)
Raise(exc) ==
    /\ sub_pc' = "error"
    /\ sub_error' = exc
    /\ UNCHANGED <<output, grads>>

ForwardBody(junk) ==
    LET ks == Pair(kernel_size)
        st == Pair(stride)
        pd == Pair(padding)
        dl == Pair(dilation)
        o  == KernelOpt(input1.shape, ks, st, pd, dl)
        out_shape == <<o.num, o.input_channels, ks[1] * ks[2], o.top_height * o.top_width>>
        nthreads  == Numel(out_shape) \div out_shape[3]
        fresh     == [i \in 0..(Numel(out_shape) - 1) |-> junk]
        \* a host pointer handed to the device kernel: every read of it is invalid
        bottom2   == IF input2.is_cuda THEN input2.data ELSE <<>>
    IN  /\ ctx' = [kernel_size |-> ks, stride |-> st, padding |-> pd, dilation |-> dl]
        /\ output_size' = <<o.top_height, o.top_width>>
        /\ IF o.top_height * o.top_width < 0
           THEN Raise("RuntimeError")           \* input1.new with a negative dimension
           ELSE \* a launch of no thread, or on a host pointer, may fail or go unnoticed
                \/ /\ ~input2.is_cuda \/ nthreads = 0
                   /\ Raise("CudaError")
                \/ /\ output' = [shape |-> out_shape,
                                 top_height |-> o.top_height, top_width |-> o.top_width,
                                 data |-> ForwardLaunch(o, input1.data, bottom2, fresh,
                                                        nthreads, junk)]
                   /\ sub_pc' = "forwarded"
                   /\ UNCHANGED <<grads, sub_error>>

Subtraction2ZeropadCall ==
    /\ sub_pc = "start"
    /\ \E junk \in JunkVals :
        IF Len(input1.shape) # 4
        THEN Raise("AssertionError") /\ UNCHANGED <<ctx, output_size>>
        ELSE IF ~input1.is_cuda
        THEN Raise("NotImplementedError") /\ UNCHANGED <<ctx, output_size>>
        ELSE ForwardBody(junk)
    /\ UNCHANGED <<input1, input2, kernel_size, stride, padding, dilation, seed>>
    /\ UNCHANGED <<ck_vars, dist_vars, ext_vars>>

(***************************************************************************)
(* Subtraction2Zeropad.backward.                                           *)
(***************************************************************************)
Backward ==
    /\ sub_pc = "forwarded"
    /\ \E junk \in JunkVals, needs \in {<<TRUE, TRUE>>, <<TRUE, FALSE>>, <<FALSE, TRUE>>} :
        LET o == KernelOpt(input1.shape, ctx.kernel_size, ctx.stride, ctx.padding, ctx.dilation)
            grad_output == [i \in DOMAIN output.data |-> GradVal(seed, i)]
        IN  grads' = [needs_input_grad |-> needs,
                      grad_output |-> grad_output,
                      top_height |-> o.top_height, top_width |-> o.top_width,
                      grad_input1 |-> IF needs[1]
                                      THEN Input1BackwardLaunch(o, grad_output,
                                               Numel(input1.shape), junk)
                                      ELSE None,
                      grad_input2 |-> IF needs[2]
                                      THEN Input2BackwardLaunch(o, grad_output,
                                               Numel(input2.shape), junk)
                                      ELSE None]
    /\ sub_pc' = "backwarded"
    /\ UNCHANGED <<input1, input2, kernel_size, stride, padding, dilation, seed,
                   ctx, output_size, output, sub_error>>
    /\ UNCHANGED <<ck_vars, dist_vars, ext_vars>>

SubNext == Subtraction2ZeropadCall \/ Backward

(***************************************************************************)
(* The unfold-based reference of test_subtraction2_zeropad:                *)
(*   unfold_i = Unfold(kernel_size=1, dilation, padding=0, stride)         *)
(*   unfold_j = Unfold(kernel_size, dilation, padding, stride)             *)
(*   y2 = unfold_i(x1).view(n, c, 1, out_height * out_width)               *)
(*          - unfold_j(x2).view(n, c, kernel_size**2, out_height*out_width)*)
(***************************************************************************)
\* torch.nn.Unfold: the number of blocks along one dimension.
UnfoldBlocks(inp, pad, dil, k, s) == ((inp + 2 * pad - dil * (k - 1) - 1) \div s) + 1

\* x[n, c, h, w] of a zero-padded tensor.
PaddedAt(x, n, c, h, w) ==
    IF (h >= 0) /\ (h < x.shape[3]) /\ (w >= 0) /\ (w < x.shape[4])
    THEN x.data[((n * x.shape[2] + c) * x.shape[3] + h) * x.shape[4] + w]
    ELSE 0

UnfoldReference(x1, x2, ks, st, pd, dl, out_height, out_width) ==
    LET B   == x1.shape[1]
        C   == x1.shape[2]
        K   == ks[1] * ks[2]
        ih  == UnfoldBlocks(x1.shape[3], 0, dl[1], 1, st[1])
        iw  == UnfoldBlocks(x1.shape[4], 0, dl[2], 1, st[2])
        jh  == UnfoldBlocks(x2.shape[3], pd[1], dl[1], ks[1], st[1])
        jw  == UnfoldBlocks(x2.shape[4], pd[2], dl[2], ks[2], st[2])
        L   == out_height * out_width
    IN  IF (jh <= 0) \/ (jw <= 0) \/ (ih * iw # L) \/ (jh * jw # L)
        THEN [ok |-> FALSE, data |-> <<>>]      \* Unfold or view raises
        ELSE [ok |-> TRUE, data |-> [off \in 0..(B * C * K * L - 1) |->
                LET l    == off % L
                    koff == (off \div L) % K
                    c    == (off \div (L * K)) % C
                    n    == off \div (L * K * C)
                    kh   == koff \div ks[2]
                    kw   == koff % ks[2]
                IN  PaddedAt(x1, n, c, (l \div iw) * st[1], (l % iw) * st[2])
                      - PaddedAt(x2, n, c,
                                 -pd[1] + (l \div jw) * st[1] + kh * dl[1],
                                 -pd[2] + (l % jw) * st[2] + kw * dl[2])]]

(***************************************************************************)
(* Properties of the forward pass.                                         *)
(***************************************************************************)
Forwarded == sub_pc \in {"forwarded", "backwarded"}

\* The caller kept the preconditions: two equal-shaped device tensors.
EqualShaped == input2.shape = input1.shape /\ input1.is_cuda /\ input2.is_cuda

HInCenter(h) == -ctx.padding[1] + h * ctx.stride[1] + ((ctx.kernel_size[1] - 1) \div 2) * ctx.dilation[1]
WInCenter(w) == -ctx.padding[2] + w * ctx.stride[2] + ((ctx.kernel_size[2] - 1) \div 2) * ctx.dilation[2]
HIn(h, kh) == -ctx.padding[1] + h * ctx.stride[1] + kh * ctx.dilation[1]
WIn(w, kw) == -ctx.padding[2] + w * ctx.stride[2] + kw * ctx.dilation[2]

InsideInput(h, w) ==
    (0 <= h) /\ (h < input1.shape[3]) /\ (0 <= w) /\ (w < input1.shape[4])

\* input[n, c, h, w] for (h, w) inside the input.
At4(t, n, c, h, w) == t.data[((n * t.shape[2] + c) * t.shape[3] + h) * t.shape[4] + w]

\* output[n, c, koff, h, w], the output seen as (batch, channel, kernel_h*kernel_w, out_h, out_w).
Out5(n, c, koff, h, w) ==
    output.data[(((n * output.shape[2] + c) * output.shape[3] + koff) * output.top_height + h)
                    * output.top_width + w]

Batches == 0..(input1.shape[1] - 1)
Channels == 0..(input1.shape[2] - 1)
OutRows == 0..(output.top_height - 1)
OutCols == 0..(output.top_width - 1)
KRows == 0..(ctx.kernel_size[1] - 1)
KCols == 0..(ctx.kernel_size[2] - 1)

\* The boundary policy at one output element.
BoundaryPolicyAt(n, c, kh, kw, h, w) ==
    /\ InsideInput(HInCenter(h), WInCenter(w))
    /\ Out5(n, c, kh * ctx.kernel_size[2] + kw, h, w) =
          IF InsideInput(HIn(h, kh), WIn(w, kw))
          THEN At4(input1, n, c, HInCenter(h), WInCenter(w))
                   - At4(input2, n, c, HIn(h, kh), WIn(w, kw))
          ELSE At4(input1, n, c, HInCenter(h), WInCenter(w))

\* padding = ((kernel - 1) / 2) * dilation in both dimensions: the window centre of
\* output location (h, w) is the input pixel (h * stride_h, w * stride_w).
CentredPadding ==
    \A i \in 1..2 : ctx.padding[i] = ((ctx.kernel_size[i] - 1) \div 2) * ctx.dilation[i]

\* The reference extracts as many centres per dimension as the output has locations.
SameGrid ==
    /\ output.top_height = UnfoldBlocks(input1.shape[3], 0, ctx.dilation[1], 1, ctx.stride[1])
    /\ output.top_width = UnfoldBlocks(input1.shape[4], 0, ctx.dilation[2], 1, ctx.stride[2])

Reference ==
    UnfoldReference(input1, input2, ctx.kernel_size, ctx.stride, ctx.padding, ctx.dilation,
                    output.top_height, output.top_width)

Slack(i) ==
    input1.shape[2 + i] + 2 * ctx.padding[i] - (ctx.dilation[i] * (ctx.kernel_size[i] - 1) + 1)

\* floor((in + 2*pad - (dilation*(kernel-1)+1)) / stride) + 1
ConvArithmetic(i) == (Slack(i) \div ctx.stride[i]) + 1

SizeComputed == output_size # None

ShapeAsClaimed ==
    /\ Forwarded =>
          /\ output.shape = <<input1.shape[1], input1.shape[2],
                              ctx.kernel_size[1] * ctx.kernel_size[2],
                              output_size[1] * output_size[2]>>
          /\ Cardinality(DOMAIN output.data) = Numel(output.shape)
    /\ sub_pc = "backwarded" =>
          <<grads.top_height, grads.top_width>> = output_size

\* C6, as claimed: for every input size, kernel size, stride, padding and dilation the
\* output height and width computed by forward (and by backward) are
\* floor((in + 2*pad - (dilation*(kernel-1)+1)) / stride) + 1, and the output has
\* shape (batch, channel, kernel_h*kernel_w, out_h*out_w).
C6_AsClaimed ==
    SizeComputed =>
        /\ \A i \in 1..2 : output_size[i] = ConvArithmetic(i)
        /\ ShapeAsClaimed

\* C6, amended: the computed height and width are the quotient truncated toward zero,
\* plus one side of it: they equal floor(...) + 1 whenever
\* in + 2*pad - (dilation*(kernel-1)+1) >= -stride, and otherwise exceed it by one
\* unless stride divides that number; the output has shape
\* (batch, channel, kernel_h*kernel_w, out_h*out_w).
C6_OutputSize ==
    SizeComputed =>
        /\ \A i \in 1..2 :
              output_size[i] =
                  IF (Slack(i) >= -ctx.stride[i]) \/ (Slack(i) % ctx.stride[i] = 0)
                  THEN ConvArithmetic(i)
                  ELSE ConvArithmetic(i) + 1
        /\ ShapeAsClaimed

\* A backward pass after a forward pass with stride, dilation and padding all in play,
\* a quotient that is not exact, and a non-empty output.
C6_Witness ==
    /\ sub_pc = "backwarded"
    /\ ctx.stride[1] > 1 /\ ctx.dilation[1] > 1 /\ ctx.padding[1] > 0 /\ ctx.kernel_size[1] > 1
    /\ Slack(1) % ctx.stride[1] # 0
    /\ output_size[1] >= 1 /\ output_size[2] > 1
    /\ output_size[1] # output_size[2]

(***************************************************************************)
(* Properties of the gradients.                                            *)
(***************************************************************************)
RECURSIVE SumOver(_, _)
SumOver(fn, S) ==
    IF S = {} THEN 0
    ELSE LET x == CHOOSE y \in S : TRUE IN fn[x] + SumOver(fn, S \ {x})

\* grad_output[n, c, koff, h, w]
G5(n, c, koff, h, w) ==
    grads.grad_output[(((n * output.shape[2] + c) * output.shape[3] + koff)
                          * output.top_height + h) * output.top_width + w]

Windows == KRows \X KCols \X OutRows \X OutCols

\* The adjoint of the forward pass at pixel (y, x) of input1: the incoming gradient of
\* every output element whose centre is (y, x).
AdjointInput1(n, c, y, x) ==
    LET S == {t \in Windows : HInCenter(t[3]) = y /\ WInCenter(t[4]) = x}
    IN  SumOver([t \in S |-> G5(n, c, t[1] * ctx.kernel_size[2] + t[2], t[3], t[4])], S)

\* The adjoint of the forward pass at pixel (y, x) of input2: minus the incoming
\* gradient of every output element that read input2 at (y, x).
AdjointInput2(n, c, y, x) ==
    LET S == {t \in Windows : HIn(t[3], t[1]) = y /\ WIn(t[4], t[2]) = x}
    IN  -SumOver([t \in S |-> G5(n, c, t[1] * ctx.kernel_size[2] + t[2], t[3], t[4])], S)

InRows == 0..(input1.shape[3] - 1)
InCols == 0..(input1.shape[4] - 1)

\* C4: the gradient with respect to input1 is the adjoint of the forward pass, for
\* every kernel/stride/padding/dilation: grad_input1[n,c,y,x] is the sum of
\* grad_output over every output location whose centre is (y, x) and every kernel
\* offset, and zero where no centre falls.
C4_AsClaimed ==
    (sub_pc = "backwarded" /\ EqualShaped /\ grads.needs_input_grad[1]) =>
        \A n \in Batches, c \in Channels, y \in InRows, x \in InCols :
            At4([shape |-> input1.shape, data |-> grads.grad_input1], n, c, y, x)
                = AdjointInput1(n, c, y, x)

\* C5: the gradient with respect to input2 is the adjoint of the forward pass:
\* grad_input2[n,c,y,x] is minus the sum of grad_output[n,c,kh*kernel_w+kw,h,w] over
\* exactly the (kh,kw,h,w), 0<=h<out_h, 0<=w<out_w, whose window position
\* (-pad_h + h*stride_h + kh*dilation_h, -pad_w + w*stride_w + kw*dilation_w) is (y,x).
C5_Input2Adjoint ==
    (sub_pc = "backwarded" /\ EqualShaped /\ grads.needs_input_grad[2]) =>
        \A n \in Batches, c \in Channels, y \in InRows, x \in InCols :
            At4([shape |-> input2.shape, data |-> grads.grad_input2], n, c, y, x)
                = AdjointInput2(n, c, y, x)

\* A backward pass with stride 2 where one input2 pixel was read by several output
\* elements, another by none, and a candidate output row falls outside the output.
C5_Witness ==
    /\ sub_pc = "backwarded" /\ EqualShaped /\ grads.needs_input_grad[2]
    /\ ctx.stride[1] > 1 /\ ctx.kernel_size[1] # ctx.kernel_size[2]
    /\ \E y \in InRows, x \in InCols :
          Cardinality({t \in Windows : HIn(t[3], t[1]) = y /\ WIn(t[4], t[2]) = x}) > 1
    /\ \E y \in InRows, x \in InCols :
          /\ {t \in Windows : HIn(t[3], t[1]) = y /\ WIn(t[4], t[2]) = x} = {}
          /\ grads.grad_input2[(y * input1.shape[4]) + x] = 0
    /\ \E y \in InRows, kh \in KRows :
          LET h_out_s == y + ctx.padding[1] - kh * ctx.dilation[1]
          IN  h_out_s % ctx.stride[1] = 0 /\ (h_out_s \div ctx.stride[1]) \notin OutRows

(***************************************************************************)
(* Properties of the failure modes.                                        *)
(***************************************************************************)
\* C7: subtraction2_zeropad fails with an explicit error, and produces no output, when
\* input1 and input2 differ in shape, an input is not 4-dimensional, or the inputs are
\* not on the device.
C7_AsClaimed ==
    (\/ input1.shape # input2.shape
     \/ Len(input1.shape) # 4 \/ Len(input2.shape) # 4
     \/ ~input1.is_cuda \/ ~input2.is_cuda)
        => sub_pc \in {"start", "error"}

(***************************************************************************)
(* Properties of the threads of the kernels.                               *)
(***************************************************************************)
\* The kernel options of the call that was made.
CtxOpt == KernelOpt(input1.shape, ctx.kernel_size, ctx.stride, ctx.padding, ctx.dilation)

\* The number of threads of the forward launch.
ForwardThreads == Numel(output.shape) \div output.shape[3]

\* The elements of the output buffer that the forward thread `index` writes.
ForwardWrites(index) ==
    LET stores == ForwardThread(CtxOpt, input1.data, input2.data, index, 0)
    IN  {stores[j].off : j \in DOMAIN stores}

AllForwardWrites == UNION {ForwardWrites(index) : index \in 0..(ForwardThreads - 1)}

\* C17: no two threads of a kernel write the same element of its output buffer, and
\* every element is written exactly once: the forward threads write
\* kernel_h*kernel_w elements each, all different, that together are the output
\* buffer; the thread `index` of a backward kernel writes element `index` of the
\* gradient buffer, one thread per element.
C17_DisjointWrites ==
    /\ Forwarded =>
          /\ \A index \in 0..(ForwardThreads - 1) :
                Cardinality(ForwardWrites(index)) = ctx.kernel_size[1] * ctx.kernel_size[2]
          /\ Cardinality(AllForwardWrites)
                = ForwardThreads * ctx.kernel_size[1] * ctx.kernel_size[2]
          /\ AllForwardWrites = DOMAIN output.data
    /\ (sub_pc = "backwarded" /\ grads.needs_input_grad[1]) =>
          DOMAIN grads.grad_input1 = 0..(Numel(input1.shape) - 1)
    /\ (sub_pc = "backwarded" /\ grads.needs_input_grad[2]) =>
          DOMAIN grads.grad_input2 = 0..(Numel(input2.shape) - 1)

\* Both gradients were computed after a forward pass of several threads with a
\* kernel that is not square.
C17_Witness ==
    /\ sub_pc = "backwarded"
    /\ grads.needs_input_grad = <<TRUE, TRUE>>
    /\ ctx.kernel_size[1] # ctx.kernel_size[2]
    /\ ctx.kernel_size[1] * ctx.kernel_size[2] > 1
    /\ ForwardThreads > 1
    /\ input1.shape[2] > 1

\* C18 (as stated): for every accepted kernel/stride/padding/dilation and every
\* output location, the centre of the window lies inside the input, so that the
\* forward kernel never reads input1 outside its buffer.
C18_AsClaimed ==
    (Forwarded /\ EqualShaped) =>
        \A n \in Batches, c \in Channels, h \in OutRows, w \in OutCols :
            /\ InsideInput(HInCenter(h), WInCenter(w))
            /\ OffsetBottom(CtxOpt, n, c, HInCenter(h), WInCenter(w)) \in DOMAIN input1.data

(***************************************************************************)
(* CheckPointer.                                                           *)
(*                                                                         *)
(* Python values that the code converts or tests are modelled with their   *)
(* type: a path is [type |-> "Path", s |-> name] (save_dir / f"{name}.pth"), *)
(* its string [type |-> "str", s |-> name], None is [type |-> "NoneType"].  *)
(* A state_dict is [kind, step]: whose state it is and the training step   *)
(* it was taken at.  A checkpoint is a function from its keys to values.   *)
(***************************************************************************)
Names == {"a", "b"}

PyNone == [type |-> "NoneType", s |-> "None"]
PathOf(name) == [type |-> "Path", s |-> name]
\* str(x)
Str(x) == [type |-> "str", s |-> x.s]

EmptyDict == [k \in {} |-> [kind |-> "extra", step |-> 0]]
NoBlob == [exists |-> FALSE, data |-> EmptyDict]

\* obj.state_dict() of the model, the optimizer or the scheduler
StateDict(kind, obj) == [kind |-> kind, step |-> obj.step]

\* The keyword arguments a caller passes to save.
KwargsChoices ==
    { EmptyDict,
      [k \in {"iteration"} |-> [kind |-> "extra", step |-> 7]],
      [k \in {"model"} |-> [kind |-> "model", step |-> 9]] }

\* dict.update: the entries of kwargs replace those of data.
DictUpdate(data, kwargs) ==
    [k \in (DOMAIN data) \cup (DOMAIN kwargs) |-> IF k \in DOMAIN kwargs THEN kwargs[k] ELSE data[k]]

\* dict.pop(key): the dictionary without the key.
DictPop(d, key) == [k \in (DOMAIN d) \ {key} |-> d[k]]

\* The data save collects (the data-parallel wrapper is unwrapped: the state_dict is
\* that of model.module).
SaveData(kwargs) ==
    LET d1 == [k \in {"model"} |-> StateDict("model", model)]
        d2 == IF optimizer.present
              THEN DictUpdate(d1, [k \in {"optimizer"} |-> StateDict("optimizer", optimizer)])
              ELSE d1
        d3 == IF scheduler.present
              THEN DictUpdate(d2, [k \in {"scheduler"} |-> StateDict("scheduler", scheduler)])
              ELSE d2
    IN  DictUpdate(d3, kwargs)

\* tag_last_checkpoint: open(..., "w") truncates the pointer file, f.write(last_filename)
\* writes a str and raises TypeError for anything else.
TagLastCheckpoint(ptr, last_filename) ==
    IF last_filename.type = "str"
    THEN [pointer |-> [exists |-> TRUE, text |-> last_filename.s, ws |-> FALSE],
          error |-> None]
    ELSE [pointer |-> [exists |-> TRUE, text |-> "", ws |-> FALSE],
          error |-> "TypeError"]

GetCheckpointFileNoHandler(ptr) ==
    IF ptr.exists
    THEN [last_saved |-> [type |-> "str", s |-> ptr.text], error |-> None]
    ELSE [last_saved |-> PyNone, error |-> "FileNotFoundError"]

\* get_checkpoint_file: f.read().strip() (ws: the text is surrounded by white space,
\* which strip removes), "" when the file cannot be opened.
GetCheckpointFile(ptr) ==
    IF ptr.exists
    THEN [last_saved |-> [type |-> "str", s |-> ptr.text], error |-> None]
    ELSE [last_saved |-> [type |-> "str", s |-> ""], error |-> None]

NoCall == [op |-> "none", name |-> "", arg |-> PyNone, use_latest |-> FALSE,
           ptr |-> [exists |-> FALSE, text |-> "", ws |-> FALSE],
           objs |-> <<0, 0, 0>>, fresh |-> FALSE, read_failed |-> FALSE,
           restored |-> <<>>, from |-> "", into |-> ""]

Objs == <<model.step, optimizer.step, scheduler.step>>

CkInit ==
    \* a model, and optionally an optimizer and a scheduler, trained for some steps
    /\ \E st \in 1..MaxStep :
          /\ model \in [ddp : BOOLEAN, step : {st}]
          /\ optimizer \in [present : BOOLEAN, step : {st}]
          /\ scheduler \in [present : BOOLEAN, step : {st}]
    /\ optimizer.present \/ ~scheduler.present
    /\ save_dir \in {"ckpt", None}
    /\ save_to_disk \in BOOLEAN
    /\ save_dir = "ckpt" \/ save_to_disk
    \* the directory is empty, or holds blob "a" and a pointer naming it, left by an
    \* earlier run
    /\ \E old \in BOOLEAN, nl \in BOOLEAN :
          /\ old \/ ~nl
          /\ old => save_dir # None
          /\ blobs = [n \in Names |->
                        IF old /\ n = "a"
                        THEN [exists |-> TRUE,
                              data |-> [k \in {"model", "optimizer", "scheduler"} |->
                                           [kind |-> k, step |-> MaxStep + 1]]]
                        ELSE NoBlob]
          /\ pointer = [exists |-> old, text |-> IF old THEN "a" ELSE "", ws |-> nl]
    /\ ck_pc = "idle"
    /\ f = PyNone
    /\ call = NoCall
    /\ ck_result = EmptyDict
    /\ ck_error = None
    /\ last_save = [valid |-> FALSE, name |-> "", objs |-> <<0, 0, 0>>,
                    has |-> <<FALSE, FALSE>>, kwargs |-> {}]
    /\ n_calls = 0

\* save(name, **kwargs)
Save ==
    /\ ck_pc = "idle"
    /\ n_calls < MaxCalls
    /\ \E name \in Names, kwargs \in KwargsChoices :
        /\ call' = [NoCall EXCEPT !.op = "save", !.name = name, !.ptr = pointer, !.objs = Objs]
        /\ IF save_dir = None \/ ~save_to_disk
           THEN /\ ck_error' = None
                /\ UNCHANGED <<blobs, pointer, last_save>>
           ELSE LET save_file == PathOf(name)
                    tagged == TagLastCheckpoint(pointer, save_file)
                IN  /\ blobs' = [blobs EXCEPT ![name] = [exists |-> TRUE, data |-> SaveData(kwargs)]]
                    /\ pointer' = tagged.pointer
                    /\ ck_error' = tagged.error
                    /\ last_save' = [valid |-> TRUE, name |-> name, objs |-> Objs,
                                     has |-> <<optimizer.present, scheduler.present>>,
                                     kwargs |-> DOMAIN kwargs]
    /\ ck_result' = EmptyDict
    /\ n_calls' = n_calls + 1
    /\ UNCHANGED <<model, optimizer, scheduler, save_dir, save_to_disk, ck_pc, f>>
    /\ UNCHANGED <<sub_vars, dist_vars, ext_vars>>

\* A new run: a CheckPointer over freshly constructed objects, on the same directory.
FreshObjects ==
    /\ ck_pc = "idle"
    /\ call.op = "save"
    /\ model' \in [ddp : BOOLEAN, step : {0}]
    /\ optimizer' \in [present : BOOLEAN, step : {0}]
    /\ scheduler' \in [present : BOOLEAN, step : {0}]
    /\ optimizer'.present \/ ~scheduler'.present
    /\ call' = [NoCall EXCEPT !.op = "fresh"]
    /\ UNCHANGED <<save_dir, save_to_disk, blobs, pointer, ck_pc, f, ck_result, ck_error,
                   last_save, n_calls>>
    /\ UNCHANGED <<sub_vars, dist_vars, ext_vars>>

\* Another process removes the pointer file.
DeletePointer ==
    /\ pointer.exists
    /\ ck_pc \in {"idle", "get_checkpoint_file"}
    /\ pointer' = [exists |-> FALSE, text |-> "", ws |-> FALSE]
    /\ UNCHANGED <<model, optimizer, scheduler, save_dir, save_to_disk, blobs, ck_pc, f,
                   call, ck_result, ck_error, last_save, n_calls>>
    /\ UNCHANGED <<sub_vars, dist_vars, ext_vars>>

\* The values a caller passes as f.
LoadArgs ==
    {PyNone} \cup {PathOf(n) : n \in Names} \cup {[type |-> "str", s |-> x] : x \in {"a", "", "None"}}

\* load(f, use_latest), up to the test of the pointer file.
LoadBegin ==
    /\ ck_pc = "idle"
    /\ n_calls < MaxCalls
    /\ \E arg \in LoadArgs, use_latest \in BOOLEAN :
        /\ call' = [NoCall EXCEPT !.op = "load", !.arg = arg, !.use_latest = use_latest,
                                  !.ptr = pointer, !.objs = Objs,
                                  !.fresh = (call.op = "fresh")]
        /\ IF arg = PyNone
           THEN \* return {}
                /\ ck_pc' = "idle"
                /\ f' = PyNone
                /\ ck_error' = None
           ELSE IF save_dir = None
           THEN \* None / "last_checkpoint.txt"
                /\ ck_pc' = "idle"
                /\ f' = Str(arg)
                /\ ck_error' = "TypeError"
           ELSE /\ f' = Str(arg)
                /\ ck_pc' = IF pointer.exists /\ use_latest
                            THEN "get_checkpoint_file" ELSE "resolved"
                /\ ck_error' = None
    /\ ck_result' = EmptyDict
    /\ n_calls' = n_calls + 1
    /\ UNCHANGED <<model, optimizer, scheduler, save_dir, save_to_disk, blobs, pointer,
                   last_save>>
    /\ UNCHANGED <<sub_vars, dist_vars, ext_vars>>

\* f = self.get_checkpoint_file()
LoadGetCheckpointFile ==
    /\ ck_pc = "get_checkpoint_file"
    /\ LET got == GetCheckpointFile(pointer)
       IN  /\ f' = got.last_saved
           /\ ck_error' = got.error
           /\ ck_pc' = IF got.error = None THEN "resolved" ELSE "idle"
           /\ call' = [call EXCEPT !.read_failed = ~pointer.exists]
    /\ UNCHANGED <<model, optimizer, scheduler, save_dir, save_to_disk, blobs, pointer,
                   ck_result, last_save, n_calls>>
    /\ UNCHANGED <<sub_vars, dist_vars, ext_vars>>

\* obj.load_state_dict(state)
LoadStateDict(obj, state) == [obj EXCEPT !.step = state.step]

ShouldRestoreWithoutLive(key, checkpoint, obj) == key \in DOMAIN checkpoint

\* "optimizer" in checkpoint and self.optimizer (likewise for the scheduler)
ShouldRestore(key, checkpoint, obj) == key \in DOMAIN checkpoint /\ obj.present

\* The rest of load: the test of f, _load_file, and the restores.
LoadRestore ==
    /\ ck_pc = "resolved"
    /\ ck_pc' = "idle"
    /\ IF f = PyNone \/ f.s = "" \/ f.s = "None"
       THEN \* "No checkpoint found."
            /\ ck_result' = EmptyDict
            /\ UNCHANGED <<model, optimizer, scheduler, ck_error, call>>
       ELSE IF ~blobs[f.s].exists
       THEN \* torch.load of a file that does not exist
            /\ ck_error' = "FileNotFoundError"
            /\ UNCHANGED <<model, optimizer, scheduler, ck_result, call>>
       ELSE LET checkpoint == blobs[f.s].data
                m   == LoadStateDict(model, checkpoint["model"])
                c1  == DictPop(checkpoint, "model")
                doO == ShouldRestore("optimizer", c1, optimizer)
                o   == IF doO THEN LoadStateDict(optimizer, c1["optimizer"]) ELSE optimizer
                c2  == IF doO THEN DictPop(c1, "optimizer") ELSE c1
                doS == ShouldRestore("scheduler", c2, scheduler)
                sc  == IF doS THEN LoadStateDict(scheduler, c2["scheduler"]) ELSE scheduler
                c3  == IF doS THEN DictPop(c2, "scheduler") ELSE c2
            IN  /\ model' = m
                /\ optimizer' = o
                /\ scheduler' = sc
                /\ ck_result' = c3
                /\ ck_error' = None
                /\ call' = [call EXCEPT !.from = f.s,
                               !.into = IF model.ddp THEN "model.module" ELSE "model",
                               !.restored = <<"model">> \o (IF doO THEN <<"optimizer">> ELSE <<>>)
                                               \o (IF doS THEN <<"scheduler">> ELSE <<>>)]
    /\ UNCHANGED <<save_dir, save_to_disk, blobs, pointer, f, last_save, n_calls>>
    /\ UNCHANGED <<sub_vars, dist_vars, ext_vars>>

\* The CheckPointer while the other components run.
CkIdle ==
    /\ model = [ddp |-> FALSE, step |-> 0]
    /\ optimizer = [present |-> FALSE, step |-> 0]
    /\ scheduler = [present |-> FALSE, step |-> 0]
    /\ save_dir = None
    /\ save_to_disk = FALSE
    /\ blobs = [n \in Names |-> NoBlob]
    /\ pointer = [exists |-> FALSE, text |-> "", ws |-> FALSE]
    /\ ck_pc = "idle"
    /\ f = PyNone
    /\ call = NoCall
    /\ ck_result = EmptyDict
    /\ ck_error = None
    /\ last_save = [valid |-> FALSE, name |-> "", objs |-> <<0, 0, 0>>,
                    has |-> <<FALSE, FALSE>>, kwargs |-> {}]
    /\ n_calls = 0

\* The subtraction operator while the other components run.
SubIdle ==
    /\ input1 = Tensor(<<1, 1, 1, 1>>, TRUE, 1, 0)
    /\ input2 = Tensor(<<1, 1, 1, 1>>, TRUE, 2, 0)
    /\ kernel_size = <<1>>
    /\ stride = <<1>>
    /\ padding = <<0>>
    /\ dilation = <<1>>
    /\ seed = 0
    /\ ctx = None
    /\ output_size = None
    /\ output = None
    /\ grads = None
    /\ sub_pc = "done"
    /\ sub_error = None

CkNext == Save \/ FreshObjects \/ DeletePointer \/ LoadBegin \/ LoadGetCheckpointFile \/ LoadRestore

(***************************************************************************)
(* Properties of the CheckPointer.                                         *)
(***************************************************************************)
\* A save call that persisted has returned or raised, and the pointer file is
\* as it left it.
Saved == call.op = "save" /\ last_save.valid /\ pointer.exists

\* A load call has returned or raised.
Loaded == call.op = "load" /\ ck_pc = "idle"

\* C2 (as stated): after a save with persistence enabled and a save directory
\* configured, last_checkpoint.txt contains exactly the path of the blob that save
\* wrote, and get_checkpoint_file returns that path.
C2_AsClaimed ==
    Saved =>
        /\ ck_error = None
        /\ pointer.text = call.name
        /\ blobs[call.name].exists
        /\ GetCheckpointFile(pointer).last_saved = Str(PathOf(call.name))

\* The load was given the checkpoint the latest save wrote, and loads it into
\* objects constructed after that save.
RoundTrip ==
    /\ Loaded
    /\ call.fresh
    /\ last_save.valid
    /\ call.arg # PyNone
    /\ call.arg.s = last_save.name

\* C3 (as stated): save followed by load of that checkpoint into freshly constructed
\* objects leaves the fresh objects with the state that was saved, whatever the name
\* and the extra fields, with or without the data-parallel wrapper.
C3_AsClaimed ==
    RoundTrip =>
        /\ ck_error = None
        /\ model.step = last_save.objs[1]
        /\ (optimizer.present /\ last_save.has[1]) => optimizer.step = last_save.objs[2]
        /\ (scheduler.present /\ last_save.has[2]) => scheduler.step = last_save.objs[3]

\* The pointer file existed when load was called, named a blob, and was still there
\* when load read it.
PointerNamesBlob ==
    /\ call.ptr.exists
    /\ call.ptr.text \in Names
    /\ blobs[call.ptr.text].exists
    /\ ~call.read_failed

\* C8 (as stated): when the pointer file exists and use_latest is set, load restores
\* the checkpoint the pointer file names, whether its argument is a path or None.
C8_AsClaimed ==
    (Loaded /\ call.use_latest /\ PointerNamesBlob) =>
        /\ call.from = call.ptr.text
        /\ call.restored # <<>>

\* No checkpoint path was resolved: no argument, or a pointer file that could not be
\* read, or a path that is empty or "None".
NothingResolved ==
    \/ call.arg = PyNone
    \/ call.read_failed
    \/ f.s \in {"", "None"}

Restored == Loaded /\ call.from # ""

\* C16: a load that resolves to a checkpoint restores the model first (into the
\* wrapped module under a data-parallel wrapper), then the optimizer, then the
\* scheduler; the optimizer exactly when the checkpoint has an optimizer entry and
\* a live optimizer is configured, the scheduler likewise.
C16_RestoreOrder ==
    Restored =>
        LET checkpoint == blobs[call.from].data
            doO == "optimizer" \in DOMAIN checkpoint /\ optimizer.present
            doS == "scheduler" \in DOMAIN checkpoint /\ scheduler.present
        IN  /\ call.restored = <<"model">> \o (IF doO THEN <<"optimizer">> ELSE <<>>)
                                    \o (IF doS THEN <<"scheduler">> ELSE <<>>)
            /\ call.into = (IF model.ddp THEN "model.module" ELSE "model")
            /\ model.step = checkpoint["model"].step
            /\ optimizer.step = (IF doO THEN checkpoint["optimizer"].step ELSE call.objs[2])
            /\ scheduler.step = (IF doS THEN checkpoint["scheduler"].step ELSE call.objs[3])

\* A load under a data-parallel wrapper has restored the model and the optimizer
\* from a checkpoint without a scheduler entry, a live scheduler being configured.
C16_Witness ==
    /\ Restored
    /\ call.restored = <<"model", "optimizer">>
    /\ model.ddp
    /\ scheduler.present
    /\ "scheduler" \notin DOMAIN blobs[call.from].data

(***************************************************************************)
(* reduce_dict.                                                            *)
(*                                                                         *)
(* A dictionary is the sequence of its entries [k, v] in insertion order;  *)
(* keys are ordered as sorted() orders them.  A value is a scalar float    *)
(* tensor, kept as the fraction [num, den] so that the division by         *)
(* world_size is exact.                                                    *)
(***************************************************************************)
Ranks == 0 .. (world_size - 1)

\* The value the process of this rank holds under this key.
LocalValue(rank, k) == [num |-> 10 * rank + k * k + 1, den |-> 1]

\* All the orders of a set of keys.
RECURSIVE Orders(_)
Orders(S) ==
    IF S = {} THEN {<<>>}
    ELSE UNION {{<<k>> \o t : t \in Orders(S \ {k})} : k \in S}

\* dict.keys(): the keys in insertion order
Keys(d) == [i \in 1..Len(d) |-> d[i].k]

\* The place of key k in d
Lookup(d, k) == (CHOOSE i \in 1..Len(d) : d[i].k = k)

\* sorted(input_dict.keys())
RECURSIVE Sorted(_)
Sorted(ks) ==
    IF Len(ks) = 0 THEN <<>>
    ELSE LET i == CHOOSE j \in 1..Len(ks) : \A l \in 1..Len(ks) : ks[j] <= ks[l]
         IN  <<ks[i]>> \o Sorted(SubSeq(ks, 1, i - 1) \o SubSeq(ks, i + 1, Len(ks)))

\* tensor + tensor
AddFrac(x, y) == [num |-> x.num * y.den + y.num * x.den, den |-> x.den * y.den]

\* tensor / n
DivFrac(x, n) == [num |-> x.num, den |-> x.den * n]

\* What all_reduce leaves in every process: the sum over the processes, position by
\* position, of the stacked tensors.
RECURSIVE AllReduceSum(_, _, _)
AllReduceSum(vals, i, r) ==
    IF r = 0 THEN vals[0][i]
    ELSE AddFrac(AllReduceSum(vals, i, r - 1), vals[r][i])

DistInit ==
    /\ world_size \in 1..MaxWorld
    /\ average \in BOOLEAN
    \* every process holds the same keys, inserted in an order of its own
    /\ \E S \in SUBSET (1..MaxKeys) : \E ord \in [Ranks -> Orders(S)] :
          input_dict = [r \in Ranks |->
                          [i \in 1..Len(ord[r]) |->
                              [k |-> ord[r][i], v |-> LocalValue(r, ord[r][i])]]]
    /\ names = [r \in Ranks |-> <<>>]
    /\ values = [r \in Ranks |-> <<>>]
    /\ reduced_dict = [r \in Ranks |-> <<>>]
    /\ rd_pc = [r \in Ranks |-> "start"]
    /\ rd_error = [r \in Ranks |-> None]

\* reduce_dict up to the collective: the world size test, the sorted names and the
\* stacked values.  torch.stack raises for an empty list.
ReduceDictBegin(r) ==
    /\ rd_pc[r] = "start"
    /\ IF world_size < 2
       THEN /\ reduced_dict' = [reduced_dict EXCEPT ![r] = input_dict[r]]
            /\ rd_pc' = [rd_pc EXCEPT ![r] = "done"]
            /\ UNCHANGED <<names, values, rd_error>>
       ELSE LET ns == Sorted(Keys(input_dict[r]))
            IN  /\ names' = [names EXCEPT ![r] = ns]
                /\ IF Len(ns) = 0
                   THEN /\ rd_error' = [rd_error EXCEPT ![r] = "RuntimeError"]
                        /\ rd_pc' = [rd_pc EXCEPT ![r] = "error"]
                        /\ UNCHANGED values
                   ELSE /\ values' = [values EXCEPT ![r] =
                                        [i \in 1..Len(ns) |->
                                            input_dict[r][Lookup(input_dict[r], ns[i])].v]]
                        /\ rd_pc' = [rd_pc EXCEPT ![r] = "all_reduce"]
                        /\ UNCHANGED rd_error
                /\ UNCHANGED reduced_dict
    /\ UNCHANGED <<world_size, input_dict, average>>
    /\ UNCHANGED <<sub_vars, ck_vars, ext_vars>>

\* distributed.all_reduce(values): completes once every process of the group has
\* entered it.
AllReduce ==
    /\ \A r \in Ranks : rd_pc[r] = "all_reduce"
    /\ values' = [r \in Ranks |->
                    [i \in 1..Len(values[r]) |-> AllReduceSum(values, i, world_size - 1)]]
    /\ rd_pc' = [r \in Ranks |-> "reduced"]
    /\ UNCHANGED <<world_size, input_dict, average, names, reduced_dict, rd_error>>
    /\ UNCHANGED <<sub_vars, ck_vars, ext_vars>>

\* The rest of reduce_dict: the division and the dictionary of names and values.
ReduceDictEnd(r) ==
    /\ rd_pc[r] = "reduced"
    /\ LET vs == IF average
                 THEN [i \in 1..Len(values[r]) |-> DivFrac(values[r][i], world_size)]
                 ELSE values[r]
       IN  /\ values' = [values EXCEPT ![r] = vs]
           /\ reduced_dict' = [reduced_dict EXCEPT ![r] =
                                 [i \in 1..Len(names[r]) |-> [k |-> names[r][i], v |-> vs[i]]]]
    /\ rd_pc' = [rd_pc EXCEPT ![r] = "done"]
    /\ UNCHANGED <<world_size, input_dict, average, names, rd_error>>
    /\ UNCHANGED <<sub_vars, ck_vars, ext_vars>>

DistNext ==
    \/ \E r \in Ranks : ReduceDictBegin(r)
    \/ AllReduce
    \/ \E r \in Ranks : ReduceDictEnd(r)

\* The process group while the other components run.
DistIdle ==
    /\ world_size = 1
    /\ average = FALSE
    /\ input_dict = [r \in {0} |-> <<>>]
    /\ names = [r \in {0} |-> <<>>]
    /\ values = [r \in {0} |-> <<>>]
    /\ reduced_dict = [r \in {0} |-> <<>>]
    /\ rd_pc = [r \in {0} |-> "done"]
    /\ rd_error = [r \in {0} |-> None]

(***************************************************************************)
(* Properties of reduce_dict.                                              *)
(***************************************************************************)
\* The sum over all the processes of the values they hold under key k.
RECURSIVE SumOfKey(_, _)
SumOfKey(k, r) ==
    LET own == input_dict[r][Lookup(input_dict[r], k)].v
    IN  IF r = 0 THEN own ELSE AddFrac(SumOfKey(k, r - 1), own)

EqFrac(x, y) == x.num * y.den = y.num * x.den

KeySet(d) == {d[i].k : i \in 1..Len(d)}

\* The dictionary a process must receive: the keys of its input, each with the sum
\* over the processes, divided by their number when average is set.
ReducedAsSpecified(r) ==
    /\ rd_pc[r] = "done"
    /\ rd_error[r] = None
    /\ KeySet(reduced_dict[r]) = KeySet(input_dict[r])
    /\ Len(reduced_dict[r]) = Len(input_dict[r])
    /\ \A i \in 1..Len(reduced_dict[r]) :
          LET sum == SumOfKey(reduced_dict[r][i].k, world_size - 1)
          IN  EqFrac(reduced_dict[r][i].v,
                     IF average THEN [num |-> sum.num, den |-> sum.den * world_size] ELSE sum)

\* C10 (as stated): with two or more processes calling reduce_dict over the same key
\* set, every process receives the keys of its input with the exact sum over the
\* processes (the mean when average is set), whatever the insertion orders were.
C10_AsClaimed ==
    world_size >= 2 =>
        \A r \in Ranks : rd_pc[r] \in {"done", "error"} => ReducedAsSpecified(r)

\* The same, for dictionaries that hold at least one key.
C10_NonEmpty ==
    (world_size >= 2 /\ \A r \in Ranks : Len(input_dict[r]) > 0) =>
        \A r \in Ranks : rd_pc[r] \in {"done", "error"} => ReducedAsSpecified(r)

(***************************************************************************)
(* all_gather.                                                             *)
(*                                                                         *)
(* A payload is a sequence of bytes.  pickle.dumps frames it: a protocol   *)
(* byte, the length, the bytes, a stop byte; pickle.loads reads one frame  *)
(* and ignores what follows it.                                            *)
(***************************************************************************)
PROTO == 128
STOP == 46

\* The bytes a payload is made of, and the bytes uninitialized memory may hold.
PayloadBytes == {7, STOP}
JunkBytes == {0, STOP}

RECURSIVE SeqsUpTo(_, _)
SeqsUpTo(S, n) ==
    IF n = 0 THEN {<<>>}
    ELSE LET shorter == SeqsUpTo(S, n - 1)
         IN  shorter \cup {Append(t, x) : t \in {u \in shorter : Len(u) = n - 1}, x \in S}

Payloads == SeqsUpTo(PayloadBytes, MaxPayload)

\* pickle.dumps(data)
Dumps(d) == <<PROTO, Len(d)>> \o d \o <<STOP>>

\* pickle.loads(buffer)
Loads(buffer) ==
    IF /\ Len(buffer) >= 3
       /\ buffer[1] = PROTO
       /\ Len(buffer) >= buffer[2] + 3
       /\ buffer[buffer[2] + 3] = STOP
    THEN [ok |-> TRUE, data |-> SubSeq(buffer, 3, buffer[2] + 2)]
    ELSE [ok |-> FALSE, data |-> <<>>]

MinSize(sizes) == CHOOSE m \in {sizes[i] : i \in DOMAIN sizes} : \A i \in DOMAIN sizes : m <= sizes[i]

\* max(size_list)
MaxSize(sizes) == CHOOSE m \in {sizes[i] : i \in DOMAIN sizes} : \A i \in DOMAIN sizes : m >= sizes[i]

\* tensor.cpu().numpy().tobytes()[:size]
Truncate(t, size) == SubSeq(t, 1, size)

GatherInit ==
    /\ payload \in [Ranks -> Payloads]
    /\ tensor = [r \in Ranks |-> <<>>]
    /\ size_list = [r \in Ranks |-> <<>>]
    /\ tensor_list = [r \in Ranks |-> <<>>]
    /\ data_list = [r \in Ranks |-> <<>>]
    /\ ag_pc = [r \in Ranks |-> "start"]
    /\ ag_error = [r \in Ranks |-> None]

\* all_gather up to the first collective: the world size test and the serialization.
GatherBegin(r) ==
    /\ ag_pc[r] = "start"
    /\ IF world_size = 1
       THEN /\ data_list' = [data_list EXCEPT ![r] = <<payload[r]>>]
            /\ ag_pc' = [ag_pc EXCEPT ![r] = "done"]
            /\ UNCHANGED tensor
       ELSE /\ tensor' = [tensor EXCEPT ![r] = Dumps(payload[r])]
            /\ ag_pc' = [ag_pc EXCEPT ![r] = "all_gather_sizes"]
            /\ UNCHANGED data_list
    /\ UNCHANGED <<payload, size_list, tensor_list, ag_error>>
    /\ UNCHANGED ag_rest

\* distributed.all_gather(size_list, local_size): completes once every process of
\* the group has entered it; every process receives the sizes in rank order.
AllGatherSizes ==
    /\ \A r \in Ranks : ag_pc[r] = "all_gather_sizes"
    /\ size_list' = [r \in Ranks |-> [i \in 1..world_size |-> Len(tensor[i - 1])]]
    /\ ag_pc' = [r \in Ranks |-> "sized"]
    /\ UNCHANGED <<payload, tensor, tensor_list, data_list, ag_error>>
    /\ UNCHANGED ag_rest

\* max_size and the padding of the local tensor with uninitialized bytes;
\* torch.empty raises for a negative size.
GatherPad(r) ==
    /\ ag_pc[r] = "sized"
    /\ \E junk \in JunkBytes :
        LET local_size == Len(tensor[r])
            max_size == MaxSize(size_list[r])
        IN  IF local_size = max_size
            THEN /\ ag_pc' = [ag_pc EXCEPT ![r] = "all_gather_tensors"]
                 /\ UNCHANGED <<tensor, ag_error>>
            ELSE IF max_size - local_size < 0
            THEN /\ ag_pc' = [ag_pc EXCEPT ![r] = "error"]
                 /\ ag_error' = [ag_error EXCEPT ![r] = "RuntimeError"]
                 /\ UNCHANGED tensor
            ELSE /\ tensor' = [tensor EXCEPT ![r] =
                                  tensor[r] \o [i \in 1..(max_size - local_size) |-> junk]]
                 /\ ag_pc' = [ag_pc EXCEPT ![r] = "all_gather_tensors"]
                 /\ UNCHANGED ag_error
    /\ UNCHANGED <<payload, size_list, tensor_list, data_list>>
    /\ UNCHANGED ag_rest

\* distributed.all_gather(tensor_list, tensor): every process receives, in rank
\* order, the tensors of the ranks in its buffers of max_size bytes.
AllGatherTensors ==
    /\ \A r \in Ranks : ag_pc[r] = "all_gather_tensors"
    /\ tensor_list' = [r \in Ranks |->
                          [i \in 1..world_size |->
                              SubSeq(tensor[i - 1], 1, MaxSize(size_list[r]))]]
    /\ ag_pc' = [r \in Ranks |-> "gathered"]
    /\ UNCHANGED <<payload, tensor, size_list, data_list, ag_error>>
    /\ UNCHANGED ag_rest

\* The rest of all_gather: each received tensor cut to its rank's size and
\* deserialized.
GatherEnd(r) ==
    /\ ag_pc[r] = "gathered"
    /\ LET loaded == [i \in 1..world_size |->
                         Loads(Truncate(tensor_list[r][i], size_list[r][i]))]
       IN  IF \A i \in 1..world_size : loaded[i].ok
           THEN /\ data_list' = [data_list EXCEPT ![r] = [i \in 1..world_size |-> loaded[i].data]]
                /\ ag_pc' = [ag_pc EXCEPT ![r] = "done"]
                /\ UNCHANGED ag_error
           ELSE /\ ag_error' = [ag_error EXCEPT ![r] = "UnpicklingError"]
                /\ ag_pc' = [ag_pc EXCEPT ![r] = "error"]
                /\ UNCHANGED data_list
    /\ UNCHANGED <<payload, tensor, size_list, tensor_list>>
    /\ UNCHANGED ag_rest

GatherNext ==
    \/ \E r \in Ranks : GatherBegin(r)
    \/ AllGatherSizes
    \/ \E r \in Ranks : GatherPad(r)
    \/ AllGatherTensors
    \/ \E r \in Ranks : GatherEnd(r)

\* all_gather while the other components run.
GatherIdle ==
    /\ payload = [r \in {0} |-> <<>>]
    /\ tensor = [r \in {0} |-> <<>>]
    /\ size_list = [r \in {0} |-> <<>>]
    /\ tensor_list = [r \in {0} |-> <<>>]
    /\ data_list = [r \in {0} |-> <<>>]
    /\ ag_pc = [r \in {0} |-> "done"]
    /\ ag_error = [r \in {0} |-> None]

\* reduce_dict while all_gather runs in a group.
ReduceIdle ==
    /\ world_size \in 1..MaxWorld
    /\ average = FALSE
    /\ input_dict = [r \in {0} |-> <<>>]
    /\ names = [r \in {0} |-> <<>>]
    /\ values = [r \in {0} |-> <<>>]
    /\ reduced_dict = [r \in {0} |-> <<>>]
    /\ rd_pc = [r \in {0} |-> "done"]
    /\ rd_error = [r \in {0} |-> None]

(***************************************************************************)
(* Properties of all_gather.                                               *)
(***************************************************************************)
\* C11: with two or more processes calling all_gather, whatever the sizes of their
\* payloads, every process receives a list of world_size elements whose i-th is the
\* payload of rank i; no call fails.
C11_AllGather ==
    world_size >= 2 =>
        \A r \in Ranks :
            /\ ag_pc[r] # "error"
            /\ ag_error[r] = None
            /\ ag_pc[r] = "done" =>
                  /\ Len(data_list[r]) = world_size
                  /\ \A i \in 1..world_size : data_list[r][i] = payload[i - 1]

\* Every process has returned from an all_gather of payloads of different sizes,
\* one of them holding the stop byte, the padding being stop bytes too.
C11_Witness ==
    /\ world_size >= 2
    /\ \A r \in Ranks : ag_pc[r] = "done"
    /\ Len(payload[0]) < Len(payload[1])
    /\ payload[1][1] = STOP
    /\ tensor[0][Len(tensor[0])] = STOP
    /\ Len(tensor[0]) > Len(Dumps(payload[0]))

(***************************************************************************)
(* The queries of the process group and the barrier.                       *)
(***************************************************************************)
\* global_world_size(): 1 without a group, else distributed.get_world_size()
GlobalWorldSize == IF ~initialized THEN 1 ELSE world_size

\* global_distribution_rank() in the process of rank r: 0 without a group, else
\* distributed.get_rank()
GlobalDistributionRank(r) == IF ~initialized THEN 0 ELSE r

\* is_main_process()
IsMainProcess(r) == GlobalDistributionRank(r) = 0

SkipBarrierUninitializedOnly == ~initialized

\* synchronise_torch_barrier returns before distributed.barrier(): no group, or a
\* group of one process.
SkipBarrier == ~initialized \/ world_size = 1

NotQueried == [asked |-> FALSE, world_size |-> -1, rank |-> -1, is_main |-> FALSE]

UtilInit ==
    /\ initialized \in BOOLEAN
    /\ bar_pc = [r \in Ranks |-> "start"]
    /\ queried = [r \in Ranks |-> NotQueried]

\* The process group while the other components run.
UtilIdle ==
    /\ initialized = FALSE
    /\ bar_pc = [r \in {0} |-> "done"]
    /\ queried = [r \in {0} |-> NotQueried]

\* synchronise_torch_barrier() up to distributed.barrier()
SynchroniseTorchBarrier(r) ==
    /\ bar_pc[r] = "start"
    /\ bar_pc' = [bar_pc EXCEPT ![r] = IF SkipBarrier THEN "done" ELSE "barrier"]
    /\ UNCHANGED <<initialized, queried>>
    /\ UNCHANGED ut_rest

\* global_world_size(), global_distribution_rank() and is_main_process()
Query(r) ==
    /\ ~queried[r].asked
    /\ queried' = [queried EXCEPT ![r] = [asked |-> TRUE,
                                          world_size |-> GlobalWorldSize,
                                          rank |-> GlobalDistributionRank(r),
                                          is_main |-> IsMainProcess(r)]]
    /\ UNCHANGED <<initialized, bar_pc>>
    /\ UNCHANGED ut_rest

\* One process without a group, or in a group of one: it calls each utility.
SoloNext ==
    \/ \E r \in Ranks : ReduceDictBegin(r)
    \/ \E r \in Ranks : GatherBegin(r)
    \/ \E r \in Ranks : SynchroniseTorchBarrier(r)
    \/ \E r \in Ranks : Query(r)

\* C12: with world size 1 no utility enters a collective: all_gather returns the
\* list of the one payload, reduce_dict returns its input dictionary as it is, for
\* either value of average, synchronise_torch_barrier returns,
\* global_distribution_rank is 0, global_world_size is 1 and is_main_process holds.
C12_NoGroupNoOp ==
    world_size = 1 =>
        \A r \in Ranks :
            /\ rd_pc[r] \in {"start", "done"}
            /\ ag_pc[r] \in {"start", "done"}
            /\ bar_pc[r] \in {"start", "done"}
            /\ rd_error[r] = None /\ ag_error[r] = None
            /\ rd_pc[r] = "done" => reduced_dict[r] = input_dict[r]
            /\ ag_pc[r] = "done" => data_list[r] = <<payload[r]>>
            /\ queried[r].asked =>
                  (queried[r].world_size = 1 /\ queried[r].rank = 0 /\ queried[r].is_main)

\* In an initialized group of one process, every utility has returned: reduce_dict
\* with average set, over a dictionary whose keys were not inserted in order,
\* all_gather of a payload that is not empty.
C12_Witness ==
    /\ world_size = 1
    /\ initialized
    /\ rd_pc[0] = "done" /\ ag_pc[0] = "done" /\ bar_pc[0] = "done"
    /\ queried[0].asked
    /\ average
    /\ Len(input_dict[0]) > 1
    /\ input_dict[0][1].k > input_dict[0][2].k
    /\ Len(payload[0]) > 0

(***************************************************************************)
(* setup_for_distributed and the print it installs.                        *)
(***************************************************************************)
\* A call of builtins.print when `depth` wrappers are installed, with the keyword
\* force passed (has_force, force) or not.  Wrapper `depth` pops force and, if
\* is_master or force, calls the print it captured, which is wrapper depth - 1 or,
\* at depth 0, the print of the interpreter: that one rejects the keyword force.
RECURSIVE PrintThrough(_, _, _, _)
PrintThrough(chain, depth, has_force, force) ==
    IF depth = 0
    THEN [emitted |-> ~has_force, force_reached |-> has_force,
          error |-> IF has_force THEN "TypeError" ELSE None]
    ELSE LET popped == IF has_force THEN force ELSE FALSE
         IN  IF chain[depth] \/ popped
             THEN PrintThrough(chain, depth - 1, FALSE, FALSE)
             ELSE [emitted |-> FALSE, force_reached |-> FALSE, error |-> None]

NoPrint == [made |-> FALSE, chain |-> <<>>, has_force |-> FALSE, force |-> FALSE,
            emitted |-> FALSE, force_reached |-> FALSE, error |-> None]

PrintInit ==
    /\ is_main \in BOOLEAN
    /\ print_chain = <<>>
    /\ last_print = NoPrint
    /\ n_prints = 0

\* builtins.print while the other components run.
PrintIdle ==
    /\ is_main = TRUE
    /\ print_chain = <<>>
    /\ last_print = NoPrint
    /\ n_prints = 0

\* setup_for_distributed(is_master): the new print captures the current one.
SetupForDistributed ==
    /\ Len(print_chain) < MaxSetup
    /\ \E is_master \in BOOLEAN : print_chain' = Append(print_chain, is_master)
    /\ UNCHANGED <<is_main, last_print, n_prints>>
    /\ UNCHANGED pr_rest

\* print(...), print(..., force=True) or print(..., force=False)
PrintCall ==
    /\ n_prints < MaxPrints
    /\ \E has_force \in BOOLEAN, force \in BOOLEAN :
        /\ has_force \/ ~force
        /\ LET did == PrintThrough(print_chain, Len(print_chain), has_force, force)
           IN  last_print' = [made |-> TRUE, chain |-> print_chain,
                              has_force |-> has_force, force |-> force,
                              emitted |-> did.emitted, force_reached |-> did.force_reached,
                              error |-> did.error]
    /\ n_prints' = n_prints + 1
    /\ UNCHANGED <<is_main, print_chain>>
    /\ UNCHANGED pr_rest

PrintNext == SetupForDistributed \/ PrintCall

\* setup_for_distributed was called before the last print, one or more times, each
\* time with is_master equal to whether the process is the main process.
SetUpAsMain ==
    /\ last_print.made
    /\ Len(last_print.chain) >= 1
    /\ \A i \in 1..Len(last_print.chain) : last_print.chain[i] = is_main

\* C13 (as stated): after one or more calls of setup_for_distributed, a print emits
\* if and only if the process is the main process or the call passes force=True, and
\* the keyword force never reaches the underlying print.
C13_AsClaimed ==
    SetUpAsMain =>
        /\ last_print.emitted <=> (is_main \/ last_print.force)
        /\ ~last_print.force_reached
        /\ last_print.error = None

\* The same after exactly one call of setup_for_distributed.
C13_SetUpOnce ==
    (SetUpAsMain /\ Len(last_print.chain) = 1) =>
        /\ last_print.emitted <=> (is_main \/ last_print.force)
        /\ ~last_print.force_reached
        /\ last_print.error = None

(***************************************************************************)
(* The VGG backbone.                                                       *)
(*                                                                         *)
(* A layer is [kind, inc, outc]; a feature map is [channels, trace, ok]:   *)
(* its channels, the modules it went through, in order, and whether every  *)
(* convolution found the channels it was built for.                        *)
(***************************************************************************)
\* The letters of the configuration tables.
M == -1
C == -2
S == -3

VggBase300 == <<64, 64, M, 128, 128, M, 256, 256, 256, C, 512, 512, 512, M, 512, 512, 512>>
VggBase512 == <<64, 64, M, 128, 128, M, 256, 256, 256, C, 512, 512, 512, M, 512, 512, 512>>
ExtrasBase300 == <<256, S, 512, 128, S, 256, 128, 256, 128, 256>>
ExtrasBase512 == <<256, S, 512, 128, S, 256, 128, S, 256, 128, S, 256>>

\* vgg_base[str(size)], extras_base[str(size)]
VggBase(size) == IF size = 300 THEN VggBase300 ELSE VggBase512
ExtrasBase(size) == IF size = 300 THEN ExtrasBase300 ELSE ExtrasBase512

Conv2d(inc, outc) == [kind |-> "Conv2d", inc |-> inc, outc |-> outc]
MaxPool2d == [kind |-> "MaxPool2d", inc |-> 0, outc |-> 0]
ReLU == [kind |-> "ReLU", inc |-> 0, outc |-> 0]

\* add_vgg(cfg): the loop from entry j on, then pool5, conv6, ReLU, conv7, ReLU
RECURSIVE AddVggFrom(_, _, _)
AddVggFrom(cfg, j, in_channels) ==
    IF j > Len(cfg)
    THEN <<MaxPool2d, Conv2d(512, 1024), ReLU, Conv2d(1024, 1024), ReLU>>
    ELSE IF cfg[j] = M \/ cfg[j] = C
    THEN <<MaxPool2d>> \o AddVggFrom(cfg, j + 1, in_channels)
    ELSE <<Conv2d(in_channels, cfg[j]), ReLU>> \o AddVggFrom(cfg, j + 1, cfg[j])

AddVgg(cfg) == AddVggFrom(cfg, 1, 3)

\* add_extras(cfg, i, size): the loop from entry j on (k = j - 1), then the two
\* layers of size 512
RECURSIVE AddExtrasFrom(_, _, _, _)
AddExtrasFrom(cfg, j, in_channels, size) ==
    IF j > Len(cfg)
    THEN IF size = 512 THEN <<Conv2d(in_channels, 128), Conv2d(128, 256)>> ELSE <<>>
    ELSE (IF in_channels # S
          THEN IF cfg[j] = S THEN <<Conv2d(in_channels, cfg[j + 1])>>
               ELSE <<Conv2d(in_channels, cfg[j])>>
          ELSE <<>>)
         \o AddExtrasFrom(cfg, j + 1, cfg[j], size)

AddExtras(cfg, i, size) == AddExtrasFrom(cfg, 1, i, size)

\* The index forward splits self.vgg at.
L2NormSplit == 23

\* module(v)
Apply(layer, tag, v) ==
    [channels |-> IF layer.kind = "Conv2d" THEN layer.outc ELSE v.channels,
     trace |-> Append(v.trace, tag),
     ok |-> v.ok /\ (layer.kind = "Conv2d" => layer.inc = v.channels)]

\* self.l2_norm(v), an L2Norm(512, scale=20)
L2Norm(v) ==
    [channels |-> v.channels,
     trace |-> Append(v.trace, [m |-> "l2_norm", i |-> 0]),
     ok |-> v.ok /\ v.channels = 512]

\* F.relu(v, inplace=True)
Relu(k, v) == [v EXCEPT !.trace = Append(v.trace, [m |-> "relu", i |-> k])]

SampledEven(k) == k % 2 = 0

\* k % 2 == 1
Sampled(k) == k % 2 = 1

VggInit ==
    /\ vgg_size \in {300, 512}
    /\ vgg = AddVgg(VggBase(vgg_size))
    /\ extras = AddExtras(ExtrasBase(vgg_size), 1024, vgg_size)
    /\ \E image \in 1..MaxImages :
          feat_x = [channels |-> 3, trace |-> <<[m |-> "x", i |-> image]>>, ok |-> TRUE]
    /\ features = <<>>
    /\ vgg_pc = "head"
    /\ vgg_i = 0

\* VGG while the other components run.
VggIdle ==
    /\ vgg_size = 300
    /\ vgg = <<>>
    /\ extras = <<>>
    /\ feat_x = [channels |-> 3, trace |-> <<>>, ok |-> TRUE]
    /\ features = <<>>
    /\ vgg_pc = "done"
    /\ vgg_i = 0

\* for i in range(23): x = self.vgg[i](x); then the L2 normalization
ForwardHead ==
    /\ vgg_pc = "head"
    /\ IF vgg_i < L2NormSplit
       THEN /\ feat_x' = Apply(vgg[vgg_i + 1], [m |-> "vgg", i |-> vgg_i], feat_x)
            /\ vgg_i' = vgg_i + 1
            /\ UNCHANGED <<features, vgg_pc>>
       ELSE /\ features' = Append(features, L2Norm(feat_x))
            /\ vgg_pc' = "tail"
            /\ UNCHANGED <<feat_x, vgg_i>>
    /\ UNCHANGED <<vgg_size, vgg, extras>>
    /\ UNCHANGED vg_rest

\* for i in range(23, len(self.vgg)): x = self.vgg[i](x); then features.append(x)
ForwardTail ==
    /\ vgg_pc = "tail"
    /\ IF vgg_i < Len(vgg)
       THEN /\ feat_x' = Apply(vgg[vgg_i + 1], [m |-> "vgg", i |-> vgg_i], feat_x)
            /\ vgg_i' = vgg_i + 1
            /\ UNCHANGED <<features, vgg_pc>>
       ELSE /\ features' = Append(features, feat_x)
            /\ vgg_pc' = "extras"
            /\ vgg_i' = 0
            /\ UNCHANGED feat_x
    /\ UNCHANGED <<vgg_size, vgg, extras>>
    /\ UNCHANGED vg_rest

\* for k, v in enumerate(self.extras): ...; then return tuple(features)
ForwardExtras ==
    /\ vgg_pc = "extras"
    /\ IF vgg_i < Len(extras)
       THEN LET y == Relu(vgg_i, Apply(extras[vgg_i + 1], [m |-> "extras", i |-> vgg_i], feat_x))
            IN  /\ feat_x' = y
                /\ features' = IF Sampled(vgg_i) THEN Append(features, y) ELSE features
                /\ vgg_i' = vgg_i + 1
                /\ UNCHANGED vgg_pc
       ELSE /\ vgg_pc' = "done"
            /\ UNCHANGED <<feat_x, features, vgg_i>>
    /\ UNCHANGED <<vgg_size, vgg, extras>>
    /\ UNCHANGED vg_rest

VggNext == ForwardHead \/ ForwardTail \/ ForwardExtras

(***************************************************************************)
(* Properties of VGG.forward.                                              *)
(***************************************************************************)
\* The input after the first n layers of self.vgg.
VggTrace(n) ==
    <<feat_x.trace[1]>> \o [j \in 1..n |-> [m |-> "vgg", i |-> j - 1]]

\* What the first n layers of self.extras, each followed by relu, add to a trace.
ExtrasTrace(n) ==
    [t \in 1..(2 * n) |->
        IF t % 2 = 1 THEN [m |-> "extras", i |-> (t - 1) \div 2]
        ELSE [m |-> "relu", i |-> (t - 2) \div 2]]

\* C14: forward returns, in this order, the L2-normalized output of the first 23
\* layers of self.vgg, the output of the last layer of self.vgg, and the activated
\* output of every layer of self.extras at an odd index; 6 feature maps for size
\* 300 and 7 for size 512.
C14_FeatureMaps ==
    vgg_pc = "done" =>
        /\ Len(features) = (IF vgg_size = 300 THEN 6 ELSE 7)
        /\ Len(features) = 2 + Cardinality({k \in 0..(Len(extras) - 1) : k % 2 = 1})
        /\ features[1].trace = Append(VggTrace(23), [m |-> "l2_norm", i |-> 0])
        /\ features[2].trace = VggTrace(Len(vgg))
        /\ \A j \in 1..(Len(features) - 2) :
              features[2 + j].trace = VggTrace(Len(vgg)) \o ExtrasTrace(2 * j)
        /\ \A j \in 1..Len(features) : features[j].ok

\* forward has returned the seven feature maps of size 512.
C14_Witness ==
    /\ vgg_pc = "done"
    /\ vgg_size = 512
    /\ Len(features) = 7
    /\ Len(extras) = 10
    /\ features[7].channels = 256

(***************************************************************************)
(* Sequences of collective utility calls in a group.                       *)
(***************************************************************************)
Utilities == {"synchronise_torch_barrier", "all_gather", "reduce_dict"}

\* The collectives a utility issues in a group of two or more processes, in order.
Collectives(utility) ==
    IF utility = "synchronise_torch_barrier" THEN <<"barrier">>
    ELSE IF utility = "all_gather" THEN <<"all_gather", "all_gather">>
    ELSE <<"all_reduce">>

\* reduce_dict raises at torch.stack, before its collective, for an empty dictionary.
RaisesBeforeCollective(utility, empty) == utility = "reduce_dict" /\ empty

Programs == SeqsUpTo(Utilities, MaxProgram)

\* A program that differs from base at one position: another utility there, or no
\* call from there on.
Deviations(base) ==
    UNION {{[base EXCEPT ![pos] = alt] : alt \in Utilities \ {base[pos]}} \cup
           {SubSeq(base, 1, pos - 1)} : pos \in 1..Len(base)}

CollInit ==
    /\ world_size \in 2..MaxWorld
    /\ \E base \in Programs, d \in Ranks :
          \E other \in {base} \cup Deviations(base) :
              program = [r \in Ranks |-> IF r = d THEN other ELSE base]
    /\ empty_dict \in [Ranks -> BOOLEAN]
    /\ co_pos = [r \in Ranks |-> 1]
    /\ co_step = [r \in Ranks |-> 0]
    /\ co_state = [r \in Ranks |-> "running"]
    /\ co_kind = [r \in Ranks |-> None]

\* The group while the other components run.
CollIdle ==
    /\ program = [r \in {0} |-> <<>>]
    /\ empty_dict = [r \in {0} |-> FALSE]
    /\ co_pos = [r \in {0} |-> 1]
    /\ co_step = [r \in {0} |-> 0]
    /\ co_state = [r \in {0} |-> "running"]
    /\ co_kind = [r \in {0} |-> None]

\* A process goes on in its call: it raises, enters the next collective of the
\* utility, or returns from the call.
CallStep(r) ==
    /\ co_state[r] = "running"
    /\ co_pos[r] <= Len(program[r])
    /\ LET utility == program[r][co_pos[r]]
           colls == Collectives(utility)
       IN  IF RaisesBeforeCollective(utility, empty_dict[r])
           THEN /\ co_state' = [co_state EXCEPT ![r] = "raised"]
                /\ UNCHANGED <<co_pos, co_step, co_kind>>
           ELSE IF co_step[r] < Len(colls)
           THEN /\ co_state' = [co_state EXCEPT ![r] = "waiting"]
                /\ co_kind' = [co_kind EXCEPT ![r] = colls[co_step[r] + 1]]
                /\ UNCHANGED <<co_pos, co_step>>
           ELSE /\ co_pos' = [co_pos EXCEPT ![r] = co_pos[r] + 1]
                /\ co_step' = [co_step EXCEPT ![r] = 0]
                /\ UNCHANGED <<co_state, co_kind>>
    /\ UNCHANGED <<program, empty_dict>>
    /\ UNCHANGED co_rest

\* A collective completes once every process of the group has entered it, all of
\* them the same collective; there is no timeout.
Complete ==
    /\ \A r \in Ranks : co_state[r] = "waiting" /\ co_kind[r] = co_kind[0]
    /\ co_state' = [r \in Ranks |-> "running"]
    /\ co_step' = [r \in Ranks |-> co_step[r] + 1]
    /\ co_kind' = [r \in Ranks |-> None]
    /\ UNCHANGED <<program, empty_dict, co_pos>>
    /\ UNCHANGED co_rest

CollNext == (\E r \in Ranks : CallStep(r)) \/ Complete

(***************************************************************************)
(* Properties of the sequences of collective calls.                        *)
(***************************************************************************)
\* Every process issues the same sequence of utility calls.
SameCalls == \A r \in Ranks : program[r] = program[0]

\* Every call of the process has returned.
Returned(r) == co_state[r] = "running" /\ co_pos[r] > Len(program[r])

\* The process waits in a collective in which another process is not and will not
\* be: that one has left its sequence, or waits in a different collective.
Mismatched(r) ==
    /\ co_state[r] = "waiting"
    /\ \E q \in Ranks :
          \/ Returned(q)
          \/ co_state[q] = "raised"
          \/ co_state[q] = "waiting" /\ co_kind[q] # co_kind[r]

\* The processes that wait in a collective another process does not issue never
\* return.
Waiting(r) == r \in Ranks /\ co_state[r] = "waiting"

NeverReturns ==
    \A r \in 0..(MaxWorld - 1) : []((r \in Ranks /\ Mismatched(r)) => []Waiting(r))

\* C15 (as stated): if every process issues the same sequence of collective utility
\* calls, every call eventually returns on every process, whatever the payloads;
\* if a process issues a different collective, or none, at some position, the
\* processes waiting in that collective never return.
C15_AsClaimed ==
    /\ SameCalls => <>(\A r \in Ranks : Returned(r))
    /\ NeverReturns

\* The same, for processes whose dictionaries hold at least one key.
C15_NonEmpty ==
    /\ (SameCalls /\ \A r \in Ranks : ~empty_dict[r]) => <>(\A r \in Ranks : Returned(r))
    /\ NeverReturns

(***************************************************************************)
(* Specifications: one per component, the other components at rest.        *)
(***************************************************************************)
\* The utilities that follow the first three, at rest.
ExtIdle == GatherIdle /\ UtilIdle /\ PrintIdle /\ VggIdle /\ CollIdle

InitSub == SubInit /\ CkIdle /\ DistIdle /\ ExtIdle

SpecSub == InitSub /\ [][SubNext]_vars

InitCkpt == CkInit /\ SubIdle /\ DistIdle /\ ExtIdle

SpecCkpt == InitCkpt /\ [][CkNext]_vars

InitDist == DistInit /\ SubIdle /\ CkIdle /\ ExtIdle

SpecDist == InitDist /\ [][DistNext]_vars

GatherRest == UtilIdle /\ PrintIdle /\ VggIdle /\ SubIdle /\ CkIdle /\ CollIdle

InitGather == ReduceIdle /\ GatherInit /\ GatherRest

SpecGather == InitGather /\ [][GatherNext]_vars

SoloRest == PrintIdle /\ VggIdle /\ SubIdle /\ CkIdle /\ CollIdle

InitSolo == world_size = 1 /\ DistInit /\ GatherInit /\ UtilInit /\ SoloRest

SpecSolo == InitSolo /\ [][SoloNext]_vars

PrintRest == GatherIdle /\ UtilIdle /\ VggIdle /\ SubIdle /\ CkIdle /\ DistIdle /\ CollIdle

InitPrint == PrintInit /\ PrintRest

SpecPrint == InitPrint /\ [][PrintNext]_vars

VggRest == GatherIdle /\ UtilIdle /\ PrintIdle /\ SubIdle /\ CkIdle /\ DistIdle /\ CollIdle

InitVgg == VggInit /\ VggRest

SpecVgg == InitVgg /\ [][VggNext]_vars

CollRest == GatherIdle /\ UtilIdle /\ PrintIdle /\ VggIdle /\ SubIdle /\ CkIdle

InitColl == ReduceIdle /\ CollInit /\ CollRest

\* No process stops while it can take a step, and a collective that every process
\* has entered completes.
SpecColl == InitColl /\ [][CollNext]_vars /\ WF_vars(CollNext)

====
